---- MODULE Spec2Model ----
(***************************************************************************)
(* usbemu, usb.c: a USB/IP frame is received into a zero-initialised       *)
(* struct usbip, converted to host byte order in place by usbip_ntoh and   *)
(* printed by usbip_dump.  The record is modelled byte by byte, so that    *)
(* byte order is something the conversions do and not something assumed.   *)
(***************************************************************************)
EXTENDS Integers, Sequences, FiniteSets, TLC

VARIABLES
    hostLE,   \* TRUE on a little-endian build (__BYTE_ORDER), FALSE on a big-endian one
    pc,       \* position of main
    frame,    \* the datagram the peer sent (round trip: the host-order message m)
    nrecv,    \* what recv returned (main discards it)
    usbip,    \* the bytes of main's struct usbip: its first ExplicitLen bytes, the rest are 0
    ret,      \* what usbip_ntoh returned (main discards it); -1 before the call
    out       \* what is on stderr: its lines, each the fprintf calls that wrote it

vars == <<hostLE, pc, frame, nrecv, usbip, ret, out>>

----------------------------------------------------------------------------
(* Program constants *)

USBIP_DIR_IN == 0
USBIP_DIR_OUT == 1

USBIP_CMD_SUBMIT == 1
USBIP_CMD_UNLINK == 2
USBIP_RET_SUBMIT == 3
USBIP_RET_UNLINK == 4

ENOTSUP == 95

\* uint8_t padding[65488]
PADDING == 65488

\* Byte offsets of the fields of the packed struct usbip.  cmd.submit and
\* ret.submit share one layout inside the union, as do cmd.unlink and ret.unlink.
Off ==
    [command |-> 0, seqnum |-> 4, devid |-> 8, direction |-> 12, endpoint |-> 16,
     f0 |-> 20, len |-> 24, start_frame |-> 28, number_of_packets |-> 32, f4 |-> 36,
     bmRequestType |-> 40, bRequest |-> 41, wValue |-> 42, wIndex |-> 44, wLength |-> 46,
     data |-> 48]

\* sizeof(struct usbip): header, union (the 28 bytes of its largest member), padding
SizeofUsbip == Off.data + PADDING

----------------------------------------------------------------------------
(* Bounds of the model *)

\* the longest trailing data a modelled frame carries or declares within the record
MaxData == 65

\* usbip holds the first ExplicitLen bytes of the record.  Every frame of the model
\* fits in them, the record starts zeroed and usbip_ntoh writes below Off.data
\* only, so every byte of the record past them is 0.
ExplicitLen == Off.data + MaxData

Zeroed == [i \in 1..ExplicitLen |-> 0]

----------------------------------------------------------------------------
(* Memory: loads and stores of uint32_t / uint16_t in the build's byte order. *)
(* A uint32_t value is written as its four base-256 digits, most significant *)
(* first, since TLC's integers end at 2^31 - 1; a uint16_t value is a number. *)

\* the uint32_t value n, for 0 <= n < 2^31
U32(n) == <<n \div 16777216, (n \div 65536) % 256, (n \div 256) % 256, n % 256>>

\* the number a uint32_t value below 2^31 stands for
Nat32(v) == ((v[1] * 256 + v[2]) * 256 + v[3]) * 256 + v[4]

Load32(le, u, off) ==
    IF le THEN <<u[off+4], u[off+3], u[off+2], u[off+1]>>
          ELSE <<u[off+1], u[off+2], u[off+3], u[off+4]>>

Load16(le, u, off) ==
    IF le THEN u[off+1] + 256 * u[off+2]
          ELSE u[off+2] + 256 * u[off+1]

Bytes32(le, v) ==
    IF le THEN <<v[4], v[3], v[2], v[1]>>
          ELSE <<v[1], v[2], v[3], v[4]>>

Bytes16(le, v) ==
    IF le THEN <<v % 256, (v \div 256) % 256>>
          ELSE <<(v \div 256) % 256, v % 256>>

Store32(le, u, off, v) ==
    SubSeq(u, 1, off) \o Bytes32(le, v) \o SubSeq(u, off + 5, Len(u))

Store16(le, u, off, v) ==
    SubSeq(u, 1, off) \o Bytes16(le, v) \o SubSeq(u, off + 3, Len(u))

----------------------------------------------------------------------------
(* <endian.h> *)

bswap_32(v) == <<v[4], v[3], v[2], v[1]>>

bswap_16(v) == (v % 256) * 256 + ((v \div 256) % 256)

be32toh(le, v) == IF le THEN bswap_32(v) ELSE v

\* le16toh with the test of the byte order the wrong way round
le16toh_be(le, v) == IF le THEN bswap_16(v) ELSE v

le16toh(le, v) == IF le THEN v ELSE bswap_16(v)

\* u->f = be32toh(u->f)
Conv32(le, u, off) == Store32(le, u, off, be32toh(le, Load32(le, u, off)))

\* u->f = le16toh(u->f)
Conv16(le, u, off) == Store16(le, u, off, le16toh(le, Load16(le, u, off)))

----------------------------------------------------------------------------
(* usbip_ntoh *)

ConvHeader(le, u) ==
    Conv32(le, Conv32(le, Conv32(le, Conv32(le, Conv32(le, u,
        Off.command), Off.seqnum), Off.devid), Off.direction), Off.endpoint)

\* the eight conversions of case USBIP_CMD_SUBMIT, and of case USBIP_RET_SUBMIT
ConvSubmit(le, u) ==
    Conv16(le, Conv16(le, Conv16(le,
        Conv32(le, Conv32(le, Conv32(le, Conv32(le, Conv32(le, u,
            Off.f0), Off.len), Off.start_frame), Off.number_of_packets), Off.f4),
        Off.wValue), Off.wIndex), Off.wLength)

\* an unlink conversion that goes on to the next 32 bits, as a submit does
ConvUnlink_two(le, u) == Conv32(le, Conv32(le, u, Off.f0), Off.len)

\* the one conversion of case USBIP_CMD_UNLINK, and of case USBIP_RET_UNLINK
ConvUnlink(le, u) == Conv32(le, u, Off.f0)

\* usbip_ntoh whose default case returns 0
usbip_ntoh_nofail(le, u) ==
    LET h == ConvHeader(le, u)
        c == Load32(le, h, Off.command)
    IN  CASE c = U32(USBIP_CMD_SUBMIT) -> [u |-> ConvSubmit(le, h), r |-> 0]
          [] c = U32(USBIP_CMD_UNLINK) -> [u |-> ConvUnlink(le, h), r |-> 0]
          [] c = U32(USBIP_RET_SUBMIT) -> [u |-> ConvSubmit(le, h), r |-> 0]
          [] c = U32(USBIP_RET_UNLINK) -> [u |-> ConvUnlink(le, h), r |-> 0]
          [] OTHER -> [u |-> h, r |-> 0]

usbip_ntoh(le, u) ==
    LET h == ConvHeader(le, u)
        c == Load32(le, h, Off.command)
    IN  CASE c = U32(USBIP_CMD_SUBMIT) -> [u |-> ConvSubmit(le, h), r |-> 0]
          [] c = U32(USBIP_CMD_UNLINK) -> [u |-> ConvUnlink(le, h), r |-> 0]
          [] c = U32(USBIP_RET_SUBMIT) -> [u |-> ConvSubmit(le, h), r |-> 0]
          [] c = U32(USBIP_RET_UNLINK) -> [u |-> ConvUnlink(le, h), r |-> 0]
          [] OTHER -> [u |-> h, r |-> ENOTSUP]

----------------------------------------------------------------------------
(* Setup-byte decoder *)

RECURSIVE BitAnd(_, _)
BitAnd(a, b) ==
    IF a = 0 \/ b = 0 THEN 0
    ELSE (a % 2) * (b % 2) + 2 * BitAnd(a \div 2, b \div 2)

Shr(a, k) == a \div (2 ^ k)

\* ((rt) & 0b10000000 >> 7): in C >> binds tighter than &
SETUP_DIR(rt) == BitAnd(rt, Shr(128, 7))
SETUP_TYP(rt) == BitAnd(rt, Shr(96, 5))
SETUP_RCP(rt) == BitAnd(rt, Shr(31, 0))

usbip_setup_dir_str(rt) == IF SETUP_DIR(rt) # 0 THEN "D2H" ELSE "H2D"

usbip_setup_typ_str(rt) ==
    CASE SETUP_TYP(rt) = 0 -> "standard"
      [] SETUP_TYP(rt) = 1 -> "class"
      [] SETUP_TYP(rt) = 2 -> "vendor"
      [] OTHER -> "<reserved>"

usbip_setup_rcp_str(rt) ==
    CASE SETUP_RCP(rt) = 0 -> "device"
      [] SETUP_RCP(rt) = 1 -> "interface"
      [] SETUP_RCP(rt) = 2 -> "endpoint"
      [] SETUP_RCP(rt) = 3 -> "other"
      [] OTHER -> "<reserved>"

usbip_setup_req_str(req) ==
    CASE req = 0 -> "GET_STATUS"
      [] req = 1 -> "CLEAR_FEATURE"
      [] req = 3 -> "SET_FEATURE"
      [] req = 5 -> "SET_ADDRESS"
      [] req = 6 -> "GET_DESCRIPTOR"
      [] req = 7 -> "SET_DESCRIPTOR"
      [] req = 8 -> "GET_CONFIGURATION"
      [] req = 9 -> "SET_CONFIGURATION"
      [] req = 10 -> "GET_INTERFACE"
      [] req = 11 -> "SET_INTERFACE"
      [] req = 12 -> "SYNCH_FRAME"
      [] OTHER -> "<reserved>"

----------------------------------------------------------------------------
(* usbip_dump: it makes a sequence of fprintf calls, each with its format    *)
(* string and its arguments as the code passes them; stderr then holds lines. *)

Call(f, a) == [fmt |-> f, args |-> a]

\* u->cmd.submit.data[i]: the flexible array member lies over padding[].  Inside
\* the record it reads the record's byte; past sizeof(struct usbip) the read is
\* out of bounds and yields whatever stray gives for it.
DataAt(u, i, stray) ==
    IF i < PADDING
    THEN IF Off.data + i < Len(u) THEN u[Off.data + i + 1] ELSE 0
    ELSE stray[i]

\* the first n iterations of: for (i = 0; i < length; i++)
\*     fprintf(f, "%s%02x", i % 32 == 0 ? "\n    " : "", data[i]);
DataLoop(u, n, stray) ==
    [k \in 1..n |->
        Call("%s%02x", <<IF (k - 1) % 32 = 0 THEN "\n    " ELSE "", DataAt(u, k - 1, stray)>>)]

DumpHeader(le, u) ==
    << Call("{\n", <<>>),
       Call("  .command = %u\n", <<Load32(le, u, Off.command)>>),
       Call("  .seqnum = %u\n", <<Load32(le, u, Off.seqnum)>>),
       Call("  .devid = %u\n", <<Load32(le, u, Off.devid)>>),
       Call("  .direction = %u\n", <<Load32(le, u, Off.direction)>>),
       Call("  .endpoint = %u\n", <<Load32(le, u, Off.endpoint)>>) >>

\* case USBIP_CMD_SUBMIT, up to and including the opening of the data block
DumpCmdSubmit(le, u) ==
    << Call("  .cmd.submit.transfer_flags = 0x%08X\n", <<Load32(le, u, Off.f0)>>),
       Call("  .cmd.submit.transfer_buffer_length = %u\n", <<Load32(le, u, Off.len)>>),
       Call("  .cmd.submit.start_frame = %u\n", <<Load32(le, u, Off.start_frame)>>),
       Call("  .cmd.submit.number_of_packets = %u\n", <<Load32(le, u, Off.number_of_packets)>>),
       Call("  .cmd.submit.interval = %u\n", <<Load32(le, u, Off.f4)>>),
       Call("  .cmd.submit.setup.direction = %s\n", <<usbip_setup_dir_str(u[Off.bmRequestType + 1])>>),
       Call("  .cmd.submit.setup.type = %s\n", <<usbip_setup_typ_str(u[Off.bmRequestType + 1])>>),
       Call("  .cmd.submit.setup.recipient = %s\n", <<usbip_setup_rcp_str(u[Off.bmRequestType + 1])>>),
       Call("  .cmd.submit.setup.bRequest = %s\n", <<usbip_setup_req_str(u[Off.bRequest + 1])>>),
       Call("  .cmd.submit.setup.wValue = %hu\n", <<Load16(le, u, Off.wValue)>>),
       Call("  .cmd.submit.setup.wIndex = %hu\n", <<Load16(le, u, Off.wIndex)>>),
       Call("  .cmd.submit.setup.wLength = %hu\n", <<Load16(le, u, Off.wLength)>>),
       Call("  .cmd.submit.data[] = {", <<>>) >>

\* case USBIP_RET_SUBMIT, up to and including the opening of the data block
DumpRetSubmit(le, u) ==
    << Call("  .ret.submit.status = %u\n", <<Load32(le, u, Off.f0)>>),
       Call("  .ret.submit.actual_length = %u\n", <<Load32(le, u, Off.len)>>),
       Call("  .ret.submit.start_frame = %u\n", <<Load32(le, u, Off.start_frame)>>),
       Call("  .ret.submit.number_of_packets = %u\n", <<Load32(le, u, Off.number_of_packets)>>),
       Call("  .ret.submit.error_count = %u\n", <<Load32(le, u, Off.f4)>>),
       Call("  .ret.submit.setup.bmRequestType = %hhu\n", <<u[Off.bmRequestType + 1]>>),
       Call("  .ret.submit.setup.bRequest = %hhu\n", <<u[Off.bRequest + 1]>>),
       Call("  .ret.submit.setup.wValue = %hu\n", <<Load16(le, u, Off.wValue)>>),
       Call("  .ret.submit.setup.wIndex = %hu\n", <<Load16(le, u, Off.wIndex)>>),
       Call("  .ret.submit.setup.wLength = %hu\n", <<Load16(le, u, Off.wLength)>>),
       Call("  .ret.submit.data[] = {", <<>>) >>

\* the loop bound of the data block: transfer_buffer_length, or actual_length
DeclaredLen(le, u) == Nat32(Load32(le, u, Off.len))

HasData(le, u) ==
    Load32(le, u, Off.command) \in {U32(USBIP_CMD_SUBMIT), U32(USBIP_RET_SUBMIT)}

\* the switch of usbip_dump with case USBIP_RET_UNLINK taken for every other
\* command too
DumpPayload_fallthrough(le, u, stray) ==
    LET c == Load32(le, u, Off.command)
    IN  CASE c = U32(USBIP_CMD_SUBMIT) ->
               DumpCmdSubmit(le, u) \o DataLoop(u, DeclaredLen(le, u), stray)
                   \o <<Call("\n  }\n", <<>>)>>
          [] c = U32(USBIP_CMD_UNLINK) ->
               <<Call("  .cmd.unlink.seqnum = %u\n", <<Load32(le, u, Off.f0)>>)>>
          [] c = U32(USBIP_RET_SUBMIT) ->
               DumpRetSubmit(le, u) \o DataLoop(u, DeclaredLen(le, u), stray)
                   \o <<Call("\n  }\n", <<>>)>>
          [] OTHER ->
               <<Call("  .ret.unlink.status = %u\n", <<Load32(le, u, Off.f0)>>)>>

\* the switch of usbip_dump, its data loops run to their end
DumpPayload(le, u, stray) ==
    LET c == Load32(le, u, Off.command)
    IN  CASE c = U32(USBIP_CMD_SUBMIT) ->
               DumpCmdSubmit(le, u) \o DataLoop(u, DeclaredLen(le, u), stray)
                   \o <<Call("\n  }\n", <<>>)>>
          [] c = U32(USBIP_CMD_UNLINK) ->
               <<Call("  .cmd.unlink.seqnum = %u\n", <<Load32(le, u, Off.f0)>>)>>
          [] c = U32(USBIP_RET_SUBMIT) ->
               DumpRetSubmit(le, u) \o DataLoop(u, DeclaredLen(le, u), stray)
                   \o <<Call("\n  }\n", <<>>)>>
          [] c = U32(USBIP_RET_UNLINK) ->
               <<Call("  .ret.unlink.status = %u\n", <<Load32(le, u, Off.f0)>>)>>
          [] OTHER -> <<>>

\* the text of the call begins with a newline: "\n  }\n", and "%s%02x" when its
\* %s is "\n    "
BeginsLine(c) == c.fmt = "\n  }\n" \/ (c.fmt = "%s%02x" /\ c.args[1] # "")

\* the text of the call ends with a newline: every format but "%s%02x" and the
\* two that open a data block
EndsLine(c) ==
    c.fmt \notin {"%s%02x", "  .cmd.submit.data[] = {", "  .ret.submit.data[] = {"}

\* the lines the calls leave on the stream: a call is the first of its line when
\* its text begins with a newline or the text before it ended with one
Lines(calls) ==
    LET cs == calls
        first == SelectSeq([i \in 1..Len(cs) |-> i],
                           LAMBDA i : i = 1 \/ BeginsLine(cs[i]) \/ EndsLine(cs[i - 1]))
    IN  [j \in 1..Len(first) |->
            SubSeq(cs, first[j], IF j < Len(first) THEN first[j + 1] - 1 ELSE Len(cs))]

\* usbip_dump running to its end
usbip_dump(le, u, stray) ==
    Lines(DumpHeader(le, u) \o DumpPayload(le, u, stray) \o <<Call("}\n", <<>>)>>)

\* usbip_dump killed at the read of data[j]: stderr is unbuffered, so what was
\* printed before stays printed
usbip_dump_killed(le, u, j, stray) ==
    Lines(DumpHeader(le, u)
            \o (IF Load32(le, u, Off.command) = U32(USBIP_CMD_SUBMIT)
                THEN DumpCmdSubmit(le, u) ELSE DumpRetSubmit(le, u))
            \o DataLoop(u, j, stray))

----------------------------------------------------------------------------
(* The frames the peer may send: wire bytes, built field by field *)

BE32(n) == Bytes32(FALSE, U32(n))

\* commands on the wire: the four kinds, two unknown codes, and kind 1 sent
\* little-endian (which reads as 16777216 big-endian)
CmdWire == {BE32(c) : c \in {0, 1, 2, 3, 4, 99}} \cup {<<1, 0, 0, 0>>}

DirWire == {BE32(USBIP_DIR_IN), BE32(USBIP_DIR_OUT)}

\* declared lengths within the modelled data: none, one byte, half a line,
\* around one full line of 32, two lines, and the longest modelled
DeclLens == {0, 1, 16, 31, 32, 33, 64, MaxData}

\* setup packets on the wire: bmRequestType, bRequest, wValue, wIndex, wLength
\* (34 12 is wValue 0x1234 = 4660)
SetupWire ==
    { <<128, 6, 52, 18, 0, 0, 64, 0>>,
      <<33, 200, 1, 0, 2, 3, 9, 1>>,
      <<98, 9, 0, 1, 5, 0, 0, 2>>,
      <<1, 1, 255, 0, 0, 255, 1, 2>> }

SeqnumWire == <<18, 52, 86, 120>>
DevidWire == <<0, 1, 0, 2>>
EndpointWire == <<128, 0, 0, 129>>
F0Wire == <<0, 0, 2, 0>>
StartFrameWire == <<1, 2, 3, 4>>
PacketsWire == <<0, 0, 0, 5>>
F4Wire == <<9, 8, 7, 6>>

\* trailing data: every byte differs from its neighbours and none is 0
DataPattern(nd) == [i \in 1..nd |-> 1 + ((7 * i) % 255)]

FullFrame(c, d, n, st, nd) ==
    c \o SeqnumWire \o DevidWire \o d \o EndpointWire
      \o F0Wire \o BE32(n) \o StartFrameWire \o PacketsWire \o F4Wire \o st
      \o DataPattern(nd)

\* whole frames carrying no trailing data, 10 bytes of it, or all that is declared
WholeFrames ==
    UNION { { FullFrame(c, d, n, st, nd) : nd \in {0, 10, n} } :
              c \in CmdWire, d \in DirWire, n \in DeclLens, st \in SetupWire }

\* frames cut short inside the header or the fixed payload (and the empty datagram)
ShortFrames ==
    { SubSeq(FullFrame(c, BE32(USBIP_DIR_OUT), 16, <<128, 6, 52, 18, 0, 0, 64, 0>>, 16), 1, k) :
        c \in CmdWire, k \in {0, 3, 10, 20, 22, 24, 47} }

\* a submit command for every bmRequestType byte
RequestTypeFrames ==
    { FullFrame(BE32(USBIP_CMD_SUBMIT), BE32(USBIP_DIR_IN), 0, <<rt, 6, 52, 18, 0, 0, 64, 0>>, 0) :
        rt \in 0..255 }

\* submits declaring all of padding[], and one byte more than the record holds
HugeFrames ==
    { FullFrame(BE32(c), BE32(USBIP_DIR_OUT), n, <<128, 6, 52, 18, 0, 0, 64, 0>>, 10) :
        c \in {USBIP_CMD_SUBMIT, USBIP_RET_SUBMIT}, n \in {PADDING, PADDING + 1} }

Frames == WholeFrames \cup ShortFrames \cup RequestTypeFrames \cup HugeFrames

\* what a read past the end of the record may yield when it does not fault
StrayBytes == {0, 170}

----------------------------------------------------------------------------
(* main *)

Min(a, b) == IF a < b THEN a ELSE b

Init ==
    /\ hostLE \in BOOLEAN
    /\ pc = "socketpair"
    /\ frame = <<>>
    /\ nrecv = 0
    /\ usbip = Zeroed            \* struct usbip usbip = {};
    /\ ret = -1
    /\ out = <<>>

\* r = socketpair(...); if (r != 0) return EXIT_FAILURE;
Socketpair ==
    /\ pc = "socketpair"
    /\ \E ok \in BOOLEAN : pc' = IF ok THEN "attach" ELSE "exit_failure"
    /\ UNCHANGED <<hostLE, frame, nrecv, usbip, ret, out>>

\* file = fopen(".../attach", "w"); if (!file) return EXIT_FAILURE; the port is
\* written to the file, socks[0] is closed
Attach ==
    /\ pc = "attach"
    /\ \E ok \in BOOLEAN : pc' = IF ok THEN "recv" ELSE "exit_failure"
    /\ UNCHANGED <<hostLE, frame, nrecv, usbip, ret, out>>

\* recv(socks[1], &usbip, sizeof(usbip), 0): one datagram is copied over the
\* start of the record; the bytes after it stay as they were
Recv ==
    /\ pc = "recv"
    /\ \E f \in Frames :
         /\ frame' = f
         /\ nrecv' = Min(Len(f), SizeofUsbip)
         /\ usbip' = SubSeq(f, 1, Min(Len(f), SizeofUsbip))
                         \o SubSeq(usbip, Min(Len(f), SizeofUsbip) + 1, ExplicitLen)
    /\ pc' = "ntoh"
    /\ UNCHANGED <<hostLE, ret, out>>

\* recv fails: the record is not written, and main goes on all the same
RecvFail ==
    /\ pc = "recv"
    /\ nrecv' = -1
    /\ pc' = "ntoh"
    /\ UNCHANGED <<hostLE, frame, usbip, ret, out>>

\* usbip_ntoh(&usbip);
Ntoh ==
    /\ pc = "ntoh"
    /\ LET res == usbip_ntoh(hostLE, usbip)
       IN  usbip' = res.u /\ ret' = res.r
    /\ pc' = "dump"
    /\ UNCHANGED <<hostLE, frame, nrecv, out>>

\* the data loop of usbip_dump indexes past sizeof(struct usbip)
ReadsPastRecord(le, u) == HasData(le, u) /\ DeclaredLen(le, u) > PADDING

NoStray == [i \in {} |-> 0]

\* usbip_dump(&usbip, stderr); then close and return EXIT_SUCCESS.  A read past
\* the record is undefined: it faults there, or yields some byte and the loop
\* goes on
Dump ==
    /\ pc = "dump"
    /\ \/ /\ ~ReadsPastRecord(hostLE, usbip)
          /\ out' = usbip_dump(hostLE, usbip, NoStray)
          /\ pc' = "done"
       \/ /\ ReadsPastRecord(hostLE, usbip)
          /\ \E stray \in [PADDING..(DeclaredLen(hostLE, usbip) - 1) -> StrayBytes] :
                out' = usbip_dump(hostLE, usbip, stray)
          /\ pc' = "done"
       \/ /\ ReadsPastRecord(hostLE, usbip)
          /\ \E j \in PADDING..(DeclaredLen(hostLE, usbip) - 1) :
             \E stray \in [PADDING..(j - 1) -> StrayBytes] :
                out' = usbip_dump_killed(hostLE, usbip, j, stray)
          /\ pc' = "killed"
    /\ UNCHANGED <<hostLE, frame, nrecv, usbip, ret>>

Next == Socketpair \/ Attach \/ Recv \/ RecvFail \/ Ntoh \/ Dump

Spec == Init /\ [][Next]_vars

----------------------------------------------------------------------------
(* Round trip: usbip_ntoh is the only conversion there is, so it is applied *)
(* to a host-order message to put it in wire order, and again to read it    *)
(* back.                                                                    *)

Pad(s) == s \o [i \in 1..(ExplicitLen - Len(s)) |-> 0]

\* setup packets in host order
SetupHost ==
    { [rt |-> 128, req |-> 6, wValue |-> 4660, wIndex |-> 0, wLength |-> 64],
      [rt |-> 33, req |-> 200, wValue |-> 1, wIndex |-> 770, wLength |-> 265],
      [rt |-> 98, req |-> 9, wValue |-> 256, wIndex |-> 5, wLength |-> 512],
      [rt |-> 1, req |-> 1, wValue |-> 255, wIndex |-> 65280, wLength |-> 513] }

HostHeader(le, c, d) ==
    Bytes32(le, U32(c)) \o Bytes32(le, U32(305419896)) \o Bytes32(le, U32(65538))
        \o Bytes32(le, U32(d)) \o Bytes32(le, U32(2))

\* a submit command or reply as the host holds it; a submit command carries its
\* trailing data only when it goes host to device
HostSubmit(le, c, d, n, st) ==
    Pad(HostHeader(le, c, d)
        \o Bytes32(le, U32(512)) \o Bytes32(le, U32(n)) \o Bytes32(le, U32(16909060))
        \o Bytes32(le, U32(5)) \o Bytes32(le, U32(151521030))
        \o <<st.rt, st.req>>
        \o Bytes16(le, st.wValue) \o Bytes16(le, st.wIndex) \o Bytes16(le, st.wLength)
        \o DataPattern(IF c = USBIP_CMD_SUBMIT /\ d = USBIP_DIR_IN THEN 0 ELSE n))

\* an unlink command or reply as the host holds it
HostUnlink(le, c, d, v) == Pad(HostHeader(le, c, d) \o Bytes32(le, U32(v)))

HostMessages(le) ==
    { HostSubmit(le, c, d, n, st) :
        c \in {USBIP_CMD_SUBMIT, USBIP_RET_SUBMIT}, d \in {USBIP_DIR_IN, USBIP_DIR_OUT},
        n \in DeclLens, st \in SetupHost }
    \cup
    { HostUnlink(le, c, d, v) :
        c \in {USBIP_CMD_UNLINK, USBIP_RET_UNLINK}, d \in {USBIP_DIR_IN, USBIP_DIR_OUT},
        v \in {0, 7, 305419896} }

InitRoundTrip ==
    /\ hostLE \in BOOLEAN
    /\ pc = "rt_encode"
    /\ usbip \in HostMessages(hostLE)
    /\ frame = usbip
    /\ nrecv = 0
    /\ ret = -1
    /\ out = <<>>

\* host to wire: usbip_ntoh(&usbip)
Encode ==
    /\ pc = "rt_encode"
    /\ LET res == usbip_ntoh(hostLE, usbip)
       IN  usbip' = res.u /\ ret' = res.r
    /\ pc' = "rt_decode"
    /\ UNCHANGED <<hostLE, frame, nrecv, out>>

\* wire to host: usbip_ntoh(&usbip)
Decode ==
    /\ pc = "rt_decode"
    /\ LET res == usbip_ntoh(hostLE, usbip)
       IN  usbip' = res.u /\ ret' = res.r
    /\ pc' = "rt_done"
    /\ UNCHANGED <<hostLE, frame, nrecv, out>>

NextRoundTrip == Encode \/ Decode

SpecRoundTrip == InitRoundTrip /\ [][NextRoundTrip]_vars

----------------------------------------------------------------------------
(* What the properties speak of *)

\* the record as recv left it: the datagram over zeroes
Received == IF nrecv <= 0 THEN Zeroed ELSE Pad(frame)

\* a 32-bit field of wire bytes s read big-endian, a 16-bit one read little-endian
BigEndian32(s, off) == <<s[off+1], s[off+2], s[off+3], s[off+4]>>
LittleEndian16(s, off) == s[off+1] + 256 * s[off+2]

\* the command the frame carries
WireCommand == BigEndian32(Received, Off.command)

Known == {U32(USBIP_CMD_SUBMIT), U32(USBIP_CMD_UNLINK), U32(USBIP_RET_SUBMIT), U32(USBIP_RET_UNLINK)}
Submits == {U32(USBIP_CMD_SUBMIT), U32(USBIP_RET_SUBMIT)}
Unlinks == {U32(USBIP_CMD_UNLINK), U32(USBIP_RET_UNLINK)}

HeaderOffsets == {Off.command, Off.seqnum, Off.devid, Off.direction, Off.endpoint}
Submit32Offsets == {Off.f0, Off.len, Off.start_frame, Off.number_of_packets, Off.f4}
Setup16Offsets == {Off.wValue, Off.wIndex, Off.wLength}

\* usbip_ntoh has returned
Converted == pc \in {"dump", "done", "killed"}

\* usbip_dump has returned, or was killed
Dumped == pc \in {"done", "killed"}

\* the trailing data bytes the frame really carries
Present == IF nrecv > Off.data THEN nrecv - Off.data ELSE 0

\* the lines of the data block, in order, and the number of bytes on them
DataLines == SelectSeq(out, LAMBDA l : l[1].fmt = "%s%02x")

RECURSIVE Total(_)
Total(ls) == IF ls = <<>> THEN 0 ELSE Len(Head(ls)) + Total(Tail(ls))

NumData == Total(DataLines)

Fmts(calls) == {calls[k].fmt : k \in DOMAIN calls}

\* every format string usbip_dump has
DumpFormats ==
    Fmts(DumpHeader(TRUE, Zeroed)) \cup Fmts(DumpCmdSubmit(TRUE, Zeroed))
        \cup Fmts(DumpRetSubmit(TRUE, Zeroed))
        \cup {"%s%02x", "\n  }\n", "}\n",
              "  .cmd.unlink.seqnum = %u\n", "  .ret.unlink.status = %u\n"}

----------------------------------------------------------------------------
(* Properties *)

\* C1: for every received frame whose big-endian command is one of 1..4,
\* after usbip_ntoh the five header fields and every 32-bit field of the
\* payload the command selects hold, read by the host, the big-endian value of
\* their wire bytes, and wValue, wIndex, wLength of a submit command or reply
\* hold the little-endian value of theirs.
C1_RuleTable ==
    (Converted /\ WireCommand \in Known) =>
        /\ \A off \in HeaderOffsets :
              Load32(hostLE, usbip, off) = BigEndian32(Received, off)
        /\ WireCommand \in Submits =>
              /\ \A off \in Submit32Offsets :
                    Load32(hostLE, usbip, off) = BigEndian32(Received, off)
              /\ \A off \in Setup16Offsets :
                    Load16(hostLE, usbip, off) = LittleEndian16(Received, off)
        /\ WireCommand \in Unlinks =>
              Load32(hostLE, usbip, Off.f0) = BigEndian32(Received, Off.f0)

\* C1 witness: on a little-endian build a submit reply with length bytes
\* 00 00 00 10 and wValue bytes 34 12 was converted to 16 and 0x1234.
C1_Witness ==
    /\ pc = "dump" /\ hostLE
    /\ WireCommand = U32(USBIP_RET_SUBMIT)
    /\ SubSeq(Received, Off.len + 1, Off.len + 4) = <<0, 0, 0, 16>>
    /\ SubSeq(Received, Off.wValue + 1, Off.wValue + 2) = <<52, 18>>
    /\ Nat32(Load32(hostLE, usbip, Off.len)) = 16
    /\ Load16(hostLE, usbip, Off.wValue) = 4660

\* C2: usbip_ntoh returns ENOTSUP exactly when the big-endian command is not one
\* of 1..4 and 0 exactly when it is; after ENOTSUP the record is not replaced by a
\* zeroed one, and what main prints are the header values the frame carried.
C2_UnsupportedCommand ==
    Converted =>
        /\ (ret = ENOTSUP) <=> (WireCommand \notin Known)
        /\ (ret = 0) <=> (WireCommand \in Known)
        /\ (ret = ENOTSUP /\ Received # Zeroed) => usbip # Zeroed
        /\ (ret = ENOTSUP /\ Dumped) =>
              /\ out[2] = <<Call("  .command = %u\n", <<BigEndian32(Received, Off.command)>>)>>
              /\ out[3] = <<Call("  .seqnum = %u\n", <<BigEndian32(Received, Off.seqnum)>>)>>
              /\ out[4] = <<Call("  .devid = %u\n", <<BigEndian32(Received, Off.devid)>>)>>
              /\ out[5] = <<Call("  .direction = %u\n", <<BigEndian32(Received, Off.direction)>>)>>
              /\ out[6] = <<Call("  .endpoint = %u\n", <<BigEndian32(Received, Off.endpoint)>>)>>

\* C2 witness: a whole frame with command 99 got ENOTSUP and was printed with
\* command 99.
C2_Witness ==
    /\ pc = "done" /\ ret = ENOTSUP
    /\ WireCommand = U32(99)
    /\ nrecv > Off.data
    /\ out[2] = <<Call("  .command = %u\n", <<U32(99)>>)>>

\* C3: when the declared length of a submit command or reply exceeds the data
\* bytes present in the frame, usbip_dump prints the bytes present and no more,
\* prints a truncation marker, and returns.
C3_DumpStopsAtLastByte ==
    (Dumped /\ HasData(hostLE, usbip) /\ DeclaredLen(hostLE, usbip) > Present) =>
        /\ pc = "done"
        /\ NumData = Present
        /\ \E k \in DOMAIN out : \E j \in DOMAIN out[k] : out[k][j].fmt \notin DumpFormats

\* the bytes a frame of the command, direction and declared length must have
Required ==
    CASE WireCommand = U32(USBIP_RET_SUBMIT) ->
            Off.data + Nat32(BigEndian32(Received, Off.len))
      [] WireCommand = U32(USBIP_CMD_SUBMIT) ->
            IF BigEndian32(Received, Off.direction) = U32(USBIP_DIR_OUT)
            THEN Off.data + Nat32(BigEndian32(Received, Off.len))
            ELSE Off.data
      [] OTHER -> Off.len

\* C4: decoding a frame of a known command that is shorter than its header, fixed
\* payload and declared trailing data is a failure, not a success.
C4_TruncatedRejected ==
    (Converted /\ WireCommand \in Known /\ nrecv < Required) => ret # 0

\* the labels the bit layout gives: bit 7, bits 6-5, bits 4-0
DirLabel(rt) == IF rt \div 128 = 1 THEN "D2H" ELSE "H2D"
TypLabel(rt) ==
    CASE (rt \div 32) % 4 = 0 -> "standard"
      [] (rt \div 32) % 4 = 1 -> "class"
      [] (rt \div 32) % 4 = 2 -> "vendor"
      [] OTHER -> "<reserved>"
RcpLabel(rt) ==
    CASE rt % 32 = 0 -> "device"
      [] rt % 32 = 1 -> "interface"
      [] rt % 32 = 2 -> "endpoint"
      [] rt % 32 = 3 -> "other"
      [] OTHER -> "<reserved>"

\* C5: the direction, type and recipient printed for a submit command are those
\* of bit 7, bits 6-5 and bits 4-0 of bmRequestType.
C5_SetupBits ==
    (Dumped /\ Load32(hostLE, usbip, Off.command) = U32(USBIP_CMD_SUBMIT)) =>
        LET rt == usbip[Off.bmRequestType + 1]
        IN  /\ out[12] = <<Call("  .cmd.submit.setup.direction = %s\n", <<DirLabel(rt)>>)>>
            /\ out[13] = <<Call("  .cmd.submit.setup.type = %s\n", <<TypLabel(rt)>>)>>
            /\ out[14] = <<Call("  .cmd.submit.setup.recipient = %s\n", <<RcpLabel(rt)>>)>>

\* C6: the conversion applied to a well-formed host-order message and then
\* again to the result succeeds and gives the message back, byte for byte, on
\* either byte order of the host.
C6_RoundTrip == pc = "rt_done" => (ret = 0 /\ usbip = frame)

\* C7: a submit command going device to host is printed without data bytes,
\* one going host to device with its declared number of them, and a submit reply
\* with its declared number of them for either direction.
C7_DataOnlyHostToDevice ==
    pc = "done" =>
        LET c == Load32(hostLE, usbip, Off.command)
            d == Load32(hostLE, usbip, Off.direction)
        IN  /\ (c = U32(USBIP_CMD_SUBMIT) /\ d = U32(USBIP_DIR_IN)) => DataLines = <<>>
            /\ (c = U32(USBIP_CMD_SUBMIT) /\ d = U32(USBIP_DIR_OUT)) =>
                  NumData = DeclaredLen(hostLE, usbip)
            /\ c = U32(USBIP_RET_SUBMIT) => NumData = DeclaredLen(hostLE, usbip)

\* the byte offsets usbip_ntoh may write for a command
MayChange(c) ==
    (Off.command..(Off.f0 - 1))
        \cup (IF c \in Submits
              THEN (Off.f0..(Off.bmRequestType - 1)) \cup (Off.wValue..(Off.data - 1))
              ELSE IF c \in Unlinks THEN Off.f0..(Off.len - 1) ELSE {})

\* C8: usbip_ntoh changes no byte but those of the five header fields and of the
\* multi-byte fields of the payload the command selects.
C8_NtohFrame ==
    Converted =>
        \A i \in 0..(ExplicitLen - 1) :
            i \notin MayChange(WireCommand) => usbip[i + 1] = Received[i + 1]

\* C8 witness: on a little-endian build an unlink command with bytes after its
\* one field, and trailing bytes, was converted; the record changed.
C8_Witness ==
    /\ pc = "dump" /\ hostLE
    /\ WireCommand = U32(USBIP_CMD_UNLINK)
    /\ nrecv > Off.data
    /\ SubSeq(Received, Off.len + 1, Off.len + 4) = <<0, 0, 0, 16>>
    /\ Received[Off.bmRequestType + 1] = 128
    /\ usbip # Received

\* the byte data[i] of the record, for i < PADDING
RecordData(i) == IF Off.data + i < ExplicitLen THEN usbip[Off.data + i + 1] ELSE 0

\* C9: for a submit command or reply of declared length n the data loop prints
\* data[0..n-1] in order, one call each, with a line break before byte i exactly
\* when i mod 32 = 0: ceil(n/32) lines, each but the last of 32 bytes, none for
\* n = 0, between the opening and the closing brace of the data block.
C9_HexLines ==
    (Dumped /\ HasData(hostLE, usbip)) =>
        LET n == DeclaredLen(hostLE, usbip)
            D == DataLines
        IN  /\ Len(D) = (n + 31) \div 32
            /\ \A k \in 1..Len(D) : Len(D[k]) = IF k * 32 <= n THEN 32 ELSE n - (k - 1) * 32
            /\ \A i \in 0..(n - 1) :
                  LET c == D[(i \div 32) + 1][(i % 32) + 1]
                  IN  /\ c.args[1] = IF i % 32 = 0 THEN "\n    " ELSE ""
                      /\ i < PADDING => c.args[2] = RecordData(i)
            /\ \E o \in DOMAIN out :
                  /\ out[o][1].fmt \in {"  .cmd.submit.data[] = {", "  .ret.submit.data[] = {"}
                  /\ \A k \in 1..Len(D) : out[o + k] = D[k]
                  /\ Len(out) = o + Len(D) + 2
                  /\ out[o + Len(D) + 1] = <<Call("\n  }\n", <<>>)>>

\* C10: when usbip_ntoh returns ENOTSUP the five header fields hold, in host
\* order, the big-endian values received, every byte after the header is as
\* received, and usbip_dump prints the opening brace, the five header lines and
\* the closing brace only.
C10_UnsupportedLeftovers ==
    (Converted /\ ret = ENOTSUP) =>
        /\ \A off \in HeaderOffsets :
              SubSeq(usbip, off + 1, off + 4) = Bytes32(hostLE, BigEndian32(Received, off))
        /\ SubSeq(usbip, Off.f0 + 1, ExplicitLen) = SubSeq(Received, Off.f0 + 1, ExplicitLen)
        /\ pc # "killed"
        /\ pc = "done" =>
              /\ \A k \in DOMAIN out : Len(out[k]) = 1
              /\ [k \in 1..Len(out) |-> out[k][1].fmt] =
                    <<"{\n", "  .command = %u\n", "  .seqnum = %u\n", "  .devid = %u\n",
                      "  .direction = %u\n", "  .endpoint = %u\n", "}\n">>

\* C10 witness: on a little-endian build a whole frame with command 99 was
\* converted, which changed the record, and printed.
C10_Witness ==
    /\ pc = "done" /\ hostLE /\ ret = ENOTSUP
    /\ WireCommand = U32(99)
    /\ nrecv > Off.data
    /\ usbip # Received
    /\ Len(out) = 7

====
